---- MODULE Spec2Model ----
(***************************************************************************)
(* Chan-theory stock picker: candle merging, fractal detection, stroke     *)
(* construction, central-zone estimation, threshold engine, signal scorer  *)
(* and the signal cascade of analyze_stock (src/app.py,                    *)
(* src/chanlun_optimizer.py).                                              *)
(*                                                                         *)
(* Prices are integers (price ticks).  A bar is a record [low, high].      *)
(* Row positions keep the 0-based numbering of the Python code; Iloc(df,i) *)
(* reads row i.                                                            *)
(***************************************************************************)
EXTENDS Integers, Sequences, FiniteSets, TLC

VARIABLES
    pc,          \* position of the run: "fetch" while rows arrive, "done" after the analysis
    df,          \* the bar frame handed to the pipeline (sequence of [low, high])
    processed,   \* df_processed = handle_inclusion(df)
    fractals,    \* the fractal list built inside find_strokes
    strokes,     \* find_strokes(...)[0]
    ding_count,  \* find_strokes(...)[1]
    di_count,    \* find_strokes(...)[2]
    zhongshu,    \* calculate_zhongshu(df), in tenths of a tick
    volatility,  \* ChanLunOptimizer: [atr, avg_price] read by get_dynamic_threshold
    threshold,   \* ChanLunOptimizer: the dict returned by get_dynamic_threshold
    context,     \* the context dict handed to the scorer
    signal_score,\* the SignalScore returned by the scorer
    provider,    \* analyze_stock: what pro.daily did ("none", "raise" or "frame")
    quote,       \* analyze_stock: the facts read from the fetched frame
    divergence,  \* analyze_stock: check_divergence(df, strokes, zhongshu)
    sell_signal, \* analyze_stock: check_sell_signals(df, strokes, zhongshu)
    result,      \* analyze_stock: the returned dict, or None
    stock_list,  \* main: the instruments of the batch
    batch_i,     \* main: the loop index i of the analysis loop
    results,     \* main: the results list
    watchlist,   \* the content of watchlist.json ([] while the file does not exist)
    watch_call,  \* the latest watchlist call: its arguments, its return value, the list it loaded
    history,     \* the content of analysis_history.json ([] while the file does not exist)
    save_calls   \* the batches appended by the save_analysis_history calls so far, in call order

chanVars == <<df, processed, fractals, strokes, ding_count, di_count, zhongshu>>
optVars == <<volatility, threshold, context, signal_score>>
runVars == <<provider, quote, divergence, sell_signal, result>>
batchVars == <<stock_list, batch_i, results>>
storeVars == <<watchlist, watch_call, history, save_calls>>
vars == <<pc, chanVars, optVars, runVars, batchVars, storeVars>>

----------------------------------------------------------------------------
(* Bounds of the model *)

Levels == 3          \* price ticks 1..Levels
RisingLevels == 5    \* price ticks of the rising specification
MaxBars == 5         \* longest frame of the exhaustive specification
MaxSwingBars == 8    \* longest frame of the swing specification
MinRisingBars == 30  \* shortest frame the rising-series analysis accepts
MaxRisingBars == 31  \* longest frame of the rising specification
MaxAtr == 5          \* largest average true range handed to the threshold engine
MaxVol == 5          \* largest current volume handed to the scorer
MaxAvgVol == 2       \* largest 20-bar average volume handed to the scorer
MaxStrokes == 3      \* longest stroke list handed to the cascade
MaxStocks == 3       \* longest stock_list of the batch
MaxDivergenceStrokes == 3 \* longest stroke list handed to check_divergence alone
MaxSaves == 22       \* most save_analysis_history calls of the history specification
MaxFullBatches == 2  \* most non-empty batches among the saved ones

Bars == {b \in [low : 1..Levels, high : 1..Levels] : b.low <= b.high}

\* bars whose range spans at most one tick
NarrowBars == {b \in Bars : b.high - b.low <= 1}

\* one-price bars of the rising specification
RisingBars == {b \in [low : 1..RisingLevels, high : 1..RisingLevels] : b.low = b.high}

----------------------------------------------------------------------------
(* Helpers standing for pandas / Python primitives *)

Iloc(frame, i) == frame[i + 1]

Max2(a, b) == IF a >= b THEN a ELSE b
Min2(a, b) == IF a <= b THEN a ELSE b

\* ascending insertion of one value into a sorted sequence
RECURSIVE InsertSorted(_, _)
InsertSorted(s, x) ==
    IF s = <<>> THEN <<x>>
    ELSE IF x <= Head(s) THEN <<x>> \o s
    ELSE <<Head(s)>> \o InsertSorted(Tail(s), x)

\* the ascending order Series.quantile works on
RECURSIVE SortAsc(_)
SortAsc(s) == IF s = <<>> THEN <<>> ELSE InsertSorted(SortAsc(Tail(s)), Head(s))

----------------------------------------------------------------------------
(* handle_inclusion *)

\* MergeRun with the merged high taken from the later row instead of the maximum
RECURSIVE MergeRun_LaterHigh(_, _, _)
MergeRun_LaterHigh(frame, current_candle, j) ==
    IF j < Len(frame)
    THEN LET next_candle == Iloc(frame, j)
             is_included == next_candle.high >= current_candle.high
                            /\ next_candle.low <= current_candle.low
             is_including == next_candle.high <= current_candle.high
                             /\ next_candle.low >= current_candle.low
         IN  IF is_included \/ is_including
             THEN MergeRun_LaterHigh(frame,
                           [high |-> next_candle.high,
                            low |-> Min2(current_candle.low, next_candle.low)],
                           j + 1)
             ELSE [candle |-> current_candle, j |-> j]
    ELSE [candle |-> current_candle, j |-> j]

\* inner while loop: absorb the rows from j on that contain / are contained
RECURSIVE MergeRun(_, _, _)
MergeRun(frame, current_candle, j) ==
    IF j < Len(frame)
    THEN LET next_candle == Iloc(frame, j)
             is_included == next_candle.high >= current_candle.high
                            /\ next_candle.low <= current_candle.low
             is_including == next_candle.high <= current_candle.high
                             /\ next_candle.low >= current_candle.low
         IN  IF is_included \/ is_including
             THEN MergeRun(frame,
                           [high |-> Max2(current_candle.high, next_candle.high),
                            low |-> Min2(current_candle.low, next_candle.low)],
                           j + 1)
             ELSE [candle |-> current_candle, j |-> j]
    ELSE [candle |-> current_candle, j |-> j]

\* outer while loop: one output candle per iteration, then i = j
RECURSIVE InclusionLoop(_, _, _)
InclusionLoop(frame, i, processed_candles) ==
    IF i < Len(frame)
    THEN LET m == MergeRun(frame, Iloc(frame, i), i + 1)
         IN  InclusionLoop(frame, m.j, Append(processed_candles, m.candle))
    ELSE processed_candles

handle_inclusion(frame) ==
    IF frame = <<>> THEN frame ELSE InclusionLoop(frame, 0, <<>>)

----------------------------------------------------------------------------
(* fractals and strokes *)

\* is_top_fractal without the comparison against the following bar
is_top_fractal_NoRight(frame, idx) ==
    IF idx < 2 \/ idx >= Len(frame) THEN FALSE
    ELSE LET p2 == Iloc(frame, idx - 1)
             p1 == Iloc(frame, idx - 2)
         IN  p2.high > p1.high /\ p2.low > p1.low

is_top_fractal(frame, idx) ==
    IF idx < 2 \/ idx >= Len(frame) THEN FALSE
    ELSE LET p2 == Iloc(frame, idx - 1)
             p1 == Iloc(frame, idx - 2)
             p3 == Iloc(frame, idx)
         IN  p2.high > p1.high /\ p2.high > p3.high
             /\ p2.low > p1.low /\ p2.low > p3.low

is_bottom_fractal(frame, idx) ==
    IF idx < 2 \/ idx >= Len(frame) THEN FALSE
    ELSE LET p2 == Iloc(frame, idx - 1)
             p1 == Iloc(frame, idx - 2)
             p3 == Iloc(frame, idx)
         IN  p2.low < p1.low /\ p2.low < p3.low
             /\ p2.high < p1.high /\ p2.high < p3.high

\* for i in range(2, len(df)): the fractal scan
RECURSIVE FractalScan(_, _, _)
FractalScan(frame, i, acc) ==
    IF i >= Len(frame) THEN acc
    ELSE IF is_top_fractal(frame, i)
         THEN FractalScan(frame, i + 1,
                  Append(acc, [idx |-> i - 1, type |-> "top", price |-> Iloc(frame, i - 1).high]))
    ELSE IF is_bottom_fractal(frame, i)
         THEN FractalScan(frame, i + 1,
                  Append(acc, [idx |-> i - 1, type |-> "bottom", price |-> Iloc(frame, i - 1).low]))
    ELSE FractalScan(frame, i + 1, acc)

\* current_stroke_start = None
NoFractal == [idx |-> -1, type |-> "none", price |-> 0]

\* one iteration of the stroke loop accepting fractals one position apart
StrokeStep_NoGap(current_stroke_start, strks, current_fractal) ==
    IF current_stroke_start = NoFractal
    THEN [start |-> current_fractal, strokes |-> strks]
    ELSE IF current_fractal.type # current_stroke_start.type
    THEN IF current_fractal.idx - current_stroke_start.idx >= 1
         THEN IF current_stroke_start.type = "bottom" /\ current_fractal.type = "top"
                 /\ current_fractal.price > current_stroke_start.price
              THEN [start |-> current_fractal,
                    strokes |-> Append(strks, [type |-> "up",
                                               start |-> current_stroke_start.price,
                                               end |-> current_fractal.price])]
              ELSE IF current_stroke_start.type = "top" /\ current_fractal.type = "bottom"
                      /\ current_fractal.price < current_stroke_start.price
              THEN [start |-> current_fractal,
                    strokes |-> Append(strks, [type |-> "down",
                                               start |-> current_stroke_start.price,
                                               end |-> current_fractal.price])]
              ELSE [start |-> current_fractal, strokes |-> strks]
         ELSE [start |-> current_fractal, strokes |-> strks]
    ELSE IF (current_fractal.type = "top" /\ current_fractal.price > current_stroke_start.price)
            \/ (current_fractal.type = "bottom" /\ current_fractal.price < current_stroke_start.price)
         THEN [start |-> current_fractal, strokes |-> strks]
         ELSE [start |-> current_stroke_start, strokes |-> strks]

\* one iteration of the stroke loop
StrokeStep(current_stroke_start, strks, current_fractal) ==
    IF current_stroke_start = NoFractal
    THEN [start |-> current_fractal, strokes |-> strks]
    ELSE IF current_fractal.type # current_stroke_start.type
    THEN IF current_fractal.idx - current_stroke_start.idx >= 2
         THEN IF current_stroke_start.type = "bottom" /\ current_fractal.type = "top"
                 /\ current_fractal.price > current_stroke_start.price
              THEN [start |-> current_fractal,
                    strokes |-> Append(strks, [type |-> "up",
                                               start |-> current_stroke_start.price,
                                               end |-> current_fractal.price])]
              ELSE IF current_stroke_start.type = "top" /\ current_fractal.type = "bottom"
                      /\ current_fractal.price < current_stroke_start.price
              THEN [start |-> current_fractal,
                    strokes |-> Append(strks, [type |-> "down",
                                               start |-> current_stroke_start.price,
                                               end |-> current_fractal.price])]
              ELSE [start |-> current_fractal, strokes |-> strks]
         ELSE [start |-> current_fractal, strokes |-> strks]
    ELSE IF (current_fractal.type = "top" /\ current_fractal.price > current_stroke_start.price)
            \/ (current_fractal.type = "bottom" /\ current_fractal.price < current_stroke_start.price)
         THEN [start |-> current_fractal, strokes |-> strks]
         ELSE [start |-> current_stroke_start, strokes |-> strks]

\* for i in range(len(fractals)): the stroke loop
RECURSIVE StrokeLoop(_, _, _, _)
StrokeLoop(frs, i, current_stroke_start, strks) ==
    IF i >= Len(frs) THEN strks
    ELSE LET s == StrokeStep(current_stroke_start, strks, Iloc(frs, i))
         IN  StrokeLoop(frs, i + 1, s.start, s.strokes)

CountType(frs, t) == Cardinality({k \in 1..Len(frs) : frs[k].type = t})

find_strokes(frame) ==
    IF frame = <<>> \/ Len(frame) < 5
    THEN [strokes |-> <<>>, ding_count |-> 0, di_count |-> 0, fractals |-> <<>>]
    ELSE LET frs == FractalScan(frame, 2, <<>>)
         IN  [strokes |-> IF Len(frs) < 2 THEN <<>> ELSE StrokeLoop(frs, 0, NoFractal, <<>>),
              ding_count |-> CountType(frs, "top"),
              di_count |-> CountType(frs, "bottom"),
              fractals |-> frs]

----------------------------------------------------------------------------
(* calculate_zhongshu *)

\* Series.quantile(num/5) with linear interpolation, of values s (ascending),
\* returned multiplied by 5
Quantile5(s, num) ==
    LET n == Len(s)
        k == (num * (n - 1)) \div 5
        r == (num * (n - 1)) % 5
    IN  IF r = 0 THEN 5 * Iloc(s, k)
        ELSE 5 * Iloc(s, k) + r * (Iloc(s, k + 1) - Iloc(s, k))

\* df['mid'] = (high + low) / 2, kept doubled: high + low
MidColumn(frame) == [k \in 1..Len(frame) |-> frame[k].high + frame[k].low]

\* the frame after df['mid'] = (df['high'] + df['low']) / 2: calculate_zhongshu
\* writes the column into the frame it was handed (mid kept doubled)
AddMidColumn(frame) ==
    [k \in 1..Len(frame) |->
        [low |-> frame[k].low, high |-> frame[k].high, mid |-> frame[k].high + frame[k].low]]

\* NaN bounds of an empty window
NoZone == [low |-> -1, high |-> -1, nan |-> TRUE]

\* calculate_zhongshu with the two percentiles exchanged
calculate_zhongshu_Swapped(frame) ==
    IF frame = <<>> THEN NoZone
    ELSE LET mid == SortAsc(MidColumn(frame))
         IN  [low |-> Quantile5(mid, 3), high |-> Quantile5(mid, 2), nan |-> FALSE]

\* low / high are the 40th / 60th percentile of mid, in tenths of a tick
calculate_zhongshu(frame) ==
    IF frame = <<>> THEN NoZone
    ELSE LET mid == SortAsc(MidColumn(frame))
         IN  [low |-> Quantile5(mid, 2), high |-> Quantile5(mid, 3), nan |-> FALSE]

----------------------------------------------------------------------------
(* ChanLunOptimizer (src/chanlun_optimizer.py).  Percentages are rationals  *)
(* [n, d] standing for n / d percent; thresholds are given in tenths.       *)

Rat(n, d) == [n |-> n, d |-> d]
\* x > k/10, x >= k/10, x < k/10, x <= k/10 for a rational x with x.d > 0
RatGt(x, k10) == 10 * x.n > k10 * x.d
RatGe(x, k10) == 10 * x.n >= k10 * x.d
RatLt(x, k10) == 10 * x.n < k10 * x.d
RatLe(x, k10) == 10 * x.n <= k10 * x.d
RatAbs(x) == IF x.n < 0 THEN Rat(-x.n, x.d) ELSE x
\* x <= y for rationals with positive denominators
RatLeq(x, y) == x.n * y.d <= y.n * x.d

\* context.get(key, default)
Get(ctx, key, default) == IF key \in DOMAIN ctx THEN ctx[key] ELSE default

\* get_dynamic_threshold with the high and the low bucket's limits exchanged
get_dynamic_threshold_Swapped(atr, avg_price) ==
    LET vol == IF avg_price > 0 THEN Rat(atr, avg_price) ELSE Rat(3, 100)
    IN  IF 100 * vol.n > 4 * vol.d
        THEN [volatility_level |-> "high", buy3_max |-> 100, buy3_min |-> 10, sell3_min |-> 15]
        ELSE IF 1000 * vol.n > 25 * vol.d
        THEN [volatility_level |-> "medium", buy3_max |-> 150, buy3_min |-> 20, sell3_min |-> 20]
        ELSE [volatility_level |-> "low", buy3_max |-> 250, buy3_min |-> 30, sell3_min |-> 20]

\* volatility = atr / avg_price if avg_price > 0 else 0.03
VolatilityRatio(atr, avg_price) ==
    IF avg_price > 0 THEN Rat(atr, avg_price) ELSE Rat(3, 100)

\* the dict of limits, in tenths of a percent (buy3 = 三买, sell3 = 三卖)
get_dynamic_threshold(atr, avg_price) ==
    LET vol == VolatilityRatio(atr, avg_price)
    IN  IF 100 * vol.n > 4 * vol.d
        THEN [volatility_level |-> "high", buy3_max |-> 250, buy3_min |-> 30, sell3_min |-> 20]
        ELSE IF 1000 * vol.n > 25 * vol.d
        THEN [volatility_level |-> "medium", buy3_max |-> 150, buy3_min |-> 20, sell3_min |-> 20]
        ELSE [volatility_level |-> "low", buy3_max |-> 100, buy3_min |-> 10, sell3_min |-> 15]

\* is_valid_breakout rejecting a breakout that equals a limit
is_valid_breakout_Strict(breakout_pct, thr, signal_type) ==
    IF signal_type = "buy3"
    THEN IF RatLe(breakout_pct, thr.buy3_min) THEN [valid |-> FALSE, reason |-> "insufficient"]
         ELSE IF RatGe(breakout_pct, thr.buy3_max) THEN [valid |-> FALSE, reason |-> "chase"]
         ELSE [valid |-> TRUE, reason |-> "in-range"]
    ELSE IF signal_type = "sell3"
    THEN IF RatLe(breakout_pct, thr.sell3_min) THEN [valid |-> FALSE, reason |-> "insufficient"]
         ELSE [valid |-> TRUE, reason |-> "valid"]
    ELSE [valid |-> TRUE, reason |-> ""]

\* is_valid_breakout: [valid, reason]
is_valid_breakout(breakout_pct, thr, signal_type) ==
    IF signal_type = "buy3"
    THEN IF RatLt(breakout_pct, thr.buy3_min) THEN [valid |-> FALSE, reason |-> "insufficient"]
         ELSE IF RatGt(breakout_pct, thr.buy3_max) THEN [valid |-> FALSE, reason |-> "chase"]
         ELSE [valid |-> TRUE, reason |-> "in-range"]
    ELSE IF signal_type = "sell3"
    THEN IF RatLt(breakout_pct, thr.sell3_min) THEN [valid |-> FALSE, reason |-> "insufficient"]
         ELSE [valid |-> TRUE, reason |-> "valid"]
    ELSE [valid |-> TRUE, reason |-> ""]

\* a NaN volume, and the NaN ratio: a zero denominator makes every strict
\* comparison of RatGt / RatLt false, as every comparison with NaN is
NaNVol == -1
NaNRatio == Rat(0, 0)

\* vol_ratio = current_vol / max(ma20_vol, 1), as a rational; max(nan, 1) is nan
VolRatio(ctx) ==
    LET current_vol == Get(ctx, "current_vol", 0)
        ma20_vol == Get(ctx, "ma20_vol", 1)
    IN  IF current_vol = NaNVol \/ ma20_vol = NaNVol THEN NaNRatio
        ELSE Rat(current_vol, Max2(ma20_vol, 1))

\* the grade bands shared by both scorers
GradeOf(score) ==
    IF score >= 80 THEN "A"
    ELSE IF score >= 60 THEN "B"
    ELSE IF score >= 45 THEN "C"
    ELSE IF score >= 30 THEN "D"
    ELSE "E"

BuyAction(grade) ==
    CASE grade = "A" -> "strong-buy" [] grade = "B" -> "buy" [] grade = "C" -> "probe"
      [] grade = "D" -> "wait" [] OTHER -> "give-up"

BuyProbability(grade) ==
    CASE grade = "A" -> 75 [] grade = "B" -> 60 [] grade = "C" -> 45
      [] grade = "D" -> 30 [] OTHER -> 18

SellAction(grade) ==
    CASE grade = "A" -> "sell-now" [] grade = "B" -> "reduce" [] grade = "C" -> "reduce-part"
      [] grade = "D" -> "set-stop" [] OTHER -> "hold"

SellProbability(grade) ==
    CASE grade = "A" -> 75 [] grade = "B" -> 62 [] grade = "C" -> 48
      [] grade = "D" -> 35 [] OTHER -> 22

\* market-trend points of score_buy_signal with bull and bear exchanged
BuyTrendPoints_Inverted(ctx) ==
    LET trend == Get(ctx, "market_trend", "neutral")
    IN  IF trend = "bear" THEN 10 ELSE IF trend = "neutral" THEN 5 ELSE 0

\* 5. market trend (both signal types of score_buy_signal)
BuyTrendPoints(ctx) ==
    LET trend == Get(ctx, "market_trend", "neutral")
    IN  IF trend = "bull" THEN 10 ELSE IF trend = "neutral" THEN 5 ELSE 0

\* the second-buy (二买) factors of score_buy_signal
Buy2Points(ctx) ==
    LET pullback == Get(ctx, "pullback_depth", Rat(30, 1))
        pullback_pts == IF RatLe(pullback, 300) THEN 30
                        ELSE IF RatLe(pullback, 500) THEN 25
                        ELSE IF RatLe(pullback, 700) THEN 15 ELSE 5
        vol_ratio == VolRatio(ctx)
        vol_pts == IF RatLt(vol_ratio, 7) THEN 20
                   ELSE IF RatLt(vol_ratio, 10) THEN 15
                   ELSE IF RatLt(vol_ratio, 13) THEN 10 ELSE 0
        pattern_pts == IF Get(ctx, "is_standard_pattern", FALSE) THEN 30
                       ELSE IF Get(ctx, "has_bottom_fractal", FALSE) THEN 20 ELSE 0
        current_price == Get(ctx, "current_price", 0)
        \* default stop: current_price * 0.95, kept in twentieths
        stop20 == IF "stop_loss_price" \in DOMAIN ctx THEN 20 * ctx["stop_loss_price"]
                  ELSE 19 * current_price
        risk_pct == Rat(100 * (20 * current_price - stop20), 20 * current_price)
        risk_pts == IF current_price > 0
                    THEN IF RatLt(risk_pct, 30) THEN 10
                         ELSE IF RatLt(risk_pct, 50) THEN 6 ELSE 0
                    ELSE 0
        sub_pts == IF Get(ctx, "sublevel_confirm", FALSE) = TRUE THEN 5 ELSE 0
    IN  pullback_pts + vol_pts + pattern_pts + risk_pts + BuyTrendPoints(ctx) + sub_pts

\* the third-buy (三买) factors of score_buy_signal
Buy3Points(ctx) ==
    LET breakout == Get(ctx, "breakout_pct", Rat(0, 1))
        breakout_pts == IF RatGe(breakout, 30) /\ RatLe(breakout, 80) THEN 30
                        ELSE IF RatGe(breakout, 80) /\ RatLe(breakout, 120) THEN 25
                        ELSE IF RatGe(breakout, 120) /\ RatLe(breakout, 150) THEN 15 ELSE 5
        vol_ratio == VolRatio(ctx)
        vol_pts == IF RatGt(vol_ratio, 20) THEN 20
                   ELSE IF RatGt(vol_ratio, 15) THEN 15
                   ELSE IF RatGt(vol_ratio, 10) THEN 10 ELSE 0
        pattern_pts == IF Get(ctx, "is_standard_pattern", FALSE) THEN 30 ELSE 15
        distance == Get(ctx, "distance_to_max", Rat(50, 1))
        distance_pts == IF RatGt(distance, 300) THEN 10
                        ELSE IF RatGt(distance, 150) THEN 5 ELSE 0
        sub_pts == IF Get(ctx, "sublevel_confirm", FALSE) = TRUE THEN 5 ELSE 0
    IN  breakout_pts + vol_pts + pattern_pts + distance_pts + BuyTrendPoints(ctx) + sub_pts

score_buy_signal(ctx, signal_type) ==
    LET score == IF signal_type = "buy2" THEN Buy2Points(ctx) ELSE Buy3Points(ctx)
        grade == GradeOf(score)
    IN  [total_score |-> score, grade |-> grade, action |-> BuyAction(grade),
         probability |-> BuyProbability(grade)]

\* breakdown points of score_sell_signal with the bands in reverse order
SellBreakdownPoints_Reversed(ctx) ==
    LET breakout == RatAbs(Get(ctx, "breakout_pct", Rat(0, 1)))
    IN  IF RatGt(breakout, 50) THEN 8
        ELSE IF RatGt(breakout, 30) THEN 15
        ELSE IF RatGt(breakout, 15) THEN 25 ELSE 30

\* 1. breakdown magnitude of score_sell_signal
SellBreakdownPoints(ctx) ==
    LET breakout == RatAbs(Get(ctx, "breakout_pct", Rat(0, 1)))
    IN  IF RatGt(breakout, 50) THEN 30
        ELSE IF RatGt(breakout, 30) THEN 25
        ELSE IF RatGt(breakout, 15) THEN 15 ELSE 8

score_sell_signal(ctx) ==
    LET rebound == Get(ctx, "rebound_pct", Rat(0, 1))
        rebound_pts == IF RatLt(rebound, 10) THEN 25
                       ELSE IF RatLt(rebound, 20) THEN 20
                       ELSE IF RatLt(rebound, 50) THEN 10 ELSE 0
        vol_ratio == VolRatio(ctx)
        vol_pts == IF RatGt(vol_ratio, 15) THEN 20
                   ELSE IF RatGt(vol_ratio, 10) THEN 12 ELSE 0
        trend == Get(ctx, "market_trend", "neutral")
        trend_pts == IF trend = "bear" THEN 15 ELSE IF trend = "neutral" THEN 8 ELSE 0
        sub_pts == IF Get(ctx, "sublevel_confirm", FALSE) THEN 10 ELSE 0
        score == SellBreakdownPoints(ctx) + rebound_pts + vol_pts + trend_pts + sub_pts
        grade == GradeOf(score)
    IN  [total_score |-> score, grade |-> grade, action |-> SellAction(grade),
         probability |-> SellProbability(grade)]

\* no call made yet
NoScore == [total_score |-> -1, grade |-> "none", action |-> "none", probability |-> 0]
NoThreshold == [volatility_level |-> "none", buy3_max |-> 0, buy3_min |-> 0, sell3_min |-> 0]
NoVolatility == [atr |-> 0, avg_price |-> 0]
NoContext == [family |-> "none"]

NoFrame == [rows |-> 0]

\* no watchlist call made yet
NoCall == [op |-> "none", code |-> "", returned |-> FALSE, before |-> <<>>]

\* any(w['code'] == code for w in watchlist)
HasCode(stored, code) == \E k \in 1..Len(stored) : stored[k].code = code

\* add_to_watchlist with the membership test made on the name
add_to_watchlist_ByName(stored, code, name, now) ==
    IF ~(\E k \in 1..Len(stored) : stored[k].name = name)
    THEN [watchlist |-> Append(stored, [code |-> code, name |-> name, added_at |-> now]),
          returned |-> TRUE]
    ELSE [watchlist |-> stored, returned |-> FALSE]

\* add_to_watchlist (src/app.py lines 111-122): the stored list after the call
\* and the returned value; `stored` is what load_watchlist returns
add_to_watchlist(stored, code, name, now) ==
    IF ~HasCode(stored, code)
    THEN [watchlist |-> Append(stored, [code |-> code, name |-> name, added_at |-> now]),
          returned |-> TRUE]
    ELSE [watchlist |-> stored, returned |-> FALSE]

\* [w for w in watchlist if w['code'] != code]
WithoutCode(stored, code) ==
    LET Keep(w) == w.code # code
    IN  SelectSeq(stored, Keep)

\* remove_from_watchlist (lines 124-128): the stored list after the call
remove_from_watchlist(stored, code) == WithoutCode(stored, code)

\* history[-20:]
HistoryKeep == 20
LastBatches(h) ==
    IF Len(h) > HistoryKeep THEN SubSeq(h, Len(h) - HistoryKeep + 1, Len(h)) ELSE h

\* save_analysis_history keeping the first 20 batches
save_analysis_history_KeepOldest(stored, batch_results, now) ==
    LET h == Append(stored, [timestamp |-> now, results |-> batch_results])
    IN  IF Len(h) > HistoryKeep THEN SubSeq(h, 1, HistoryKeep) ELSE h

\* save_analysis_history (lines 130-147): the stored history after the call
save_analysis_history(stored, batch_results, now) ==
    LastBatches(Append(stored, [timestamp |-> now, results |-> batch_results]))

StoreIdle ==
    /\ watchlist = <<>>
    /\ watch_call = NoCall
    /\ history = <<>>
    /\ save_calls = <<>>

RunIdle ==
    /\ provider = "unfetched"
    /\ quote = NoFrame
    /\ divergence = [has_divergence |-> FALSE, divergence_type |-> "none"]
    /\ sell_signal = [has_sell_signal |-> FALSE, sell_type |-> "none"]
    /\ result = [returned |-> "pending"]

BatchIdle ==
    /\ stock_list = <<>>
    /\ batch_i = 0
    /\ results = <<>>

OptIdle ==
    /\ volatility = NoVolatility
    /\ threshold = NoThreshold
    /\ context = NoContext
    /\ signal_score = NoScore

----------------------------------------------------------------------------
(* check_divergence, check_sell_signals and the cascade of analyze_stock.   *)
(* Here the zone bounds, the stroke prices and the frame's prices share one *)
(* unit; entry, stop-loss and target are kept in hundredths of that unit.   *)
(* Labels: third-sell 三卖, second-sell 二卖, third-buy 三买, breakout-observe   *)
(* 突破后观察, breakout-insufficient 突破不足, strong-second-buy 强力二买,          *)
(* standard-second-buy 标准二买, first-buy 一买, none 无; actions: sell 卖出,     *)
(* reduce 减仓, buy 买入, watch 关注, wait 观望.                                 *)

MinBars == 20

\* [s for s in strokes if s['type'] == t]
RECURSIVE OfType(_, _)
OfType(strks, t) ==
    IF strks = <<>> THEN <<>>
    ELSE IF Head(strks).type = t THEN <<Head(strks)>> \o OfType(Tail(strks), t)
    ELSE OfType(Tail(strks), t)

Last(s) == s[Len(s)]
\* strokes[-3:]
LastThree(strks) == SubSeq(strks, Len(strks) - 2, Len(strks))
Abs(x) == IF x < 0 THEN -x ELSE x

NoDivergence == [has_divergence |-> FALSE, divergence_type |-> "none"]

check_divergence(current_price, strks, zs) ==
    IF Len(strks) < 2 THEN NoDivergence
    ELSE LET down_strokes == OfType(strks, "down")
             up_strokes == OfType(strks, "up")
             bottom ==
                 /\ Len(down_strokes) >= 2
                 /\ LET last_down == down_strokes[Len(down_strokes)]
                        prev_down == down_strokes[Len(down_strokes) - 1]
                        current_price_drop == Abs(last_down.end - last_down.start)
                        prev_price_drop == Abs(prev_down.end - prev_down.start)
                    IN  /\ last_down.end < prev_down.end
                        /\ 10 * current_price_drop > 8 * prev_price_drop
                        /\ current_price < zs.low
             top ==
                 /\ Len(up_strokes) >= 2
                 /\ LET last_up == up_strokes[Len(up_strokes)]
                        prev_up == up_strokes[Len(up_strokes) - 1]
                        current_price_rise == last_up.end - last_up.start
                        prev_price_rise == prev_up.end - prev_up.start
                    IN  /\ last_up.end > prev_up.end
                        /\ 10 * current_price_rise < 12 * prev_price_rise
                        /\ current_price > zs.high
         IN  IF top THEN [has_divergence |-> TRUE, divergence_type |-> "top"]
             ELSE IF bottom THEN [has_divergence |-> TRUE, divergence_type |-> "bottom"]
             ELSE NoDivergence

NoSell == [has_sell_signal |-> FALSE, sell_type |-> "none"]

check_sell_signals(current_price, strks, zs) ==
    IF Len(strks) < 3 THEN NoSell
    ELSE LET recent_strokes == LastThree(strks)
             third == /\ recent_strokes[1].type = "down"
                      /\ recent_strokes[2].type = "up"
                      /\ recent_strokes[3].type = "down"
                      /\ recent_strokes[2].end < zs.low
                      /\ current_price < recent_strokes[2].end
             second == /\ recent_strokes[1].type = "up"
                       /\ recent_strokes[2].type = "down"
                       /\ recent_strokes[1].end > zs.high
                       /\ recent_strokes[2].end < zs.high
                       /\ recent_strokes[2].end > zs.low
                       /\ current_price < zs.high
         IN  IF second THEN [has_sell_signal |-> TRUE, sell_type |-> "second-sell"]
             ELSE IF third THEN [has_sell_signal |-> TRUE, sell_type |-> "third-sell"]
             ELSE NoSell

\* the initial values of the result fields (lines 885-896)
NoPrice == -1
Blank ==
    [returned |-> "dict", signal |-> "none", action |-> "wait", grade |-> "none",
     entry_price |-> NoPrice, stop_loss |-> NoPrice, target_price |-> NoPrice,
     risk_level |-> "medium"]

\* return None
NoneResult ==
    [returned |-> "None", signal |-> "none", action |-> "none", grade |-> "none",
     entry_price |-> NoPrice, stop_loss |-> NoPrice, target_price |-> NoPrice,
     risk_level |-> "none"]

\* df is None or len(df) < 5
HasNoData_FiveBars(prov, rows) == prov = "none" \/ rows < 5

\* df is None or len(df) < 20
HasNoData(prov, rows) == prov = "none" \/ rows < MinBars

\* the chain with the sell test moved behind the buy tests
Branch_SellLast(sell, current_price, strks, zs, rows) ==
    IF current_price > zs.high /\ strks # <<>> THEN "buy3"
    ELSE IF strks # <<>> /\ Len(strks) >= 3 /\ rows >= 5 THEN "buy2"
    ELSE IF current_price < zs.low /\ strks # <<>> THEN "buy1"
    ELSE IF sell.has_sell_signal THEN "sell"
    ELSE "none"

\* which arm of the if / elif chain of lines 901-1094 is entered
Branch(sell, current_price, strks, zs, rows) ==
    IF sell.has_sell_signal THEN "sell"
    ELSE IF current_price > zs.high /\ strks # <<>> THEN "buy3"
    ELSE IF strks # <<>> /\ Len(strks) >= 3 /\ rows >= 5 THEN "buy2"
    ELSE IF current_price < zs.low /\ strks # <<>> THEN "buy1"
    ELSE "none"

\* ma20_vol == 0 or pd.isna(ma20_vol) -> 1; NaN is written NaNVol
FixAvgVol(v) == IF v = 0 \/ v = NaNVol THEN 1 ELSE v

\* the context of the sell arm (lines 905-916)
SellContext(current_price, zs, volume) ==
    [breakout_pct |-> IF current_price < zs.low
                      THEN RatAbs(Rat(100 * (current_price - zs.low), zs.low))
                      ELSE Rat(0, 1),
     current_vol |-> volume,
     ma20_vol |-> FixAvgVol(volume),
     rebound_pct |-> Rat(0, 1),
     market_trend |-> "neutral"]

\* the sell arm (lines 901-950)
SellResult(sell, score, current_price, strks, min_price) ==
    LET recent_up == OfType(strks, "up")
    IN  [returned |-> "dict",
         signal |-> sell.sell_type,
         grade |-> score.grade,
         action |-> IF sell.sell_type = "third-sell" /\ score.grade \in {"A", "B"}
                    THEN "sell" ELSE "reduce",
         risk_level |-> IF sell.sell_type = "third-sell" /\ score.grade \in {"A", "B"}
                        THEN "high" ELSE "medium",
         entry_price |-> 100 * current_price,
         stop_loss |-> IF recent_up # <<>> THEN 102 * Last(recent_up).end
                       ELSE 105 * current_price,
         target_price |-> 95 * min_price]

\* the context of the third-buy arm (lines 982-993)
Buy3Context(breakout_pct, distance_to_max, current_vol, ma20_vol) ==
    [breakout_pct |-> breakout_pct,
     current_vol |-> current_vol,
     ma20_vol |-> FixAvgVol(ma20_vol),
     sublevel_confirm |-> FALSE,
     market_trend |-> "neutral",
     distance_to_max |-> distance_to_max]

\* breakout_pct and distance_to_max of the third-buy arm (lines 957-960)
BreakoutPct(current_price, zs) == Rat(100 * (current_price - zs.high), zs.high)
DistanceToMax(current_price, max_price) ==
    IF max_price > 0 THEN Rat(100 * (max_price - current_price), max_price) ELSE Rat(0, 1)

\* recent_up and recent_up[-1]['end'] > zhongshu['high'] (line 955)
UpStrokeAboveZone(strks, zs) ==
    LET recent_up == OfType(strks, "up")
    IN  recent_up # <<>> /\ Last(recent_up).end > zs.high

\* the third-buy arm with the grade deciding the action before the divergence test
Buy3Result_GradeFirst(div, thr, score, current_price, strks, zs, max_price) ==
    LET breakout_pct == BreakoutPct(current_price, zs)
        valid == is_valid_breakout(breakout_pct, thr, "buy3").valid
    IN  IF ~UpStrokeAboveZone(strks, zs) THEN Blank
        ELSE IF ~valid
        THEN IF RatGe(breakout_pct, thr.buy3_max)
             THEN [Blank EXCEPT !.signal = "breakout-observe", !.action = "wait",
                                !.risk_level = "high"]
             ELSE [Blank EXCEPT !.signal = "breakout-insufficient", !.action = "wait",
                                !.risk_level = "medium"]
        ELSE [returned |-> "dict",
              signal |-> IF div.has_divergence /\ div.divergence_type = "top"
                         THEN "third-buy+divergence" ELSE "third-buy",
              grade |-> score.grade,
              action |-> IF score.grade \in {"A", "B"} THEN "buy"
                         ELSE IF div.has_divergence /\ div.divergence_type = "top" THEN "reduce"
                         ELSE IF score.grade = "D" THEN "wait" ELSE "watch",
              risk_level |-> IF div.has_divergence /\ div.divergence_type = "top" THEN "high"
                             ELSE IF score.grade = "A" THEN "low"
                             ELSE IF score.grade = "B" THEN "medium" ELSE "high",
              entry_price |-> 100 * current_price,
              stop_loss |-> Max2(98 * zs.high, 95 * current_price),
              target_price |-> 100 * max_price]

\* the third-buy arm (lines 953-1030); thr and score are the optimizer's answers
Buy3Result(div, thr, score, current_price, strks, zs, max_price) ==
    LET breakout_pct == BreakoutPct(current_price, zs)
        valid == is_valid_breakout(breakout_pct, thr, "buy3").valid
    IN  IF ~UpStrokeAboveZone(strks, zs) THEN Blank
        ELSE IF ~valid
        THEN IF RatGe(breakout_pct, thr.buy3_max)
             THEN [Blank EXCEPT !.signal = "breakout-observe", !.action = "wait",
                                !.risk_level = "high"]
             ELSE [Blank EXCEPT !.signal = "breakout-insufficient", !.action = "wait",
                                !.risk_level = "medium"]
        ELSE [returned |-> "dict",
              signal |-> IF div.has_divergence /\ div.divergence_type = "top"
                         THEN "third-buy+divergence" ELSE "third-buy",
              grade |-> score.grade,
              action |-> IF div.has_divergence /\ div.divergence_type = "top" THEN "reduce"
                         ELSE IF score.grade \in {"A", "B"} THEN "buy"
                         ELSE IF score.grade = "D" THEN "wait" ELSE "watch",
              risk_level |-> IF div.has_divergence /\ div.divergence_type = "top" THEN "high"
                             ELSE IF score.grade = "A" THEN "low"
                             ELSE IF score.grade = "B" THEN "medium" ELSE "high",
              entry_price |-> 100 * current_price,
              stop_loss |-> Max2(98 * zs.high, 95 * current_price),
              target_price |-> 100 * max_price]

\* the last three strokes are down, up, down (lines 1038-1040)
IsDownUpDown(strks) ==
    /\ Len(strks) >= 3
    /\ LastThree(strks)[1].type = "down"
    /\ LastThree(strks)[2].type = "up"
    /\ LastThree(strks)[3].type = "down"

\* the bottom fractal of the last three rows (lines 1053-1054); lows = <<low[i-2], low[i-1], low[i]>>
LastBarsBottomFractal(lows) == lows[2] < lows[1] /\ lows[2] < lows[3]

\* the second-buy arm (lines 1034-1091).  recent_strokes[0]['end_idx'] raises
\* KeyError when the stroke record has no such key; the except clause of
\* analyze_stock turns that into return None.
Buy2Result(current_price, strks, zs, rows, max_price, lows, hist_now, hist_first) ==
    IF ~IsDownUpDown(strks) THEN Blank
    ELSE LET recent_strokes == LastThree(strks)
         IN  IF "end_idx" \notin DOMAIN recent_strokes[1] THEN NoneResult
             ELSE LET first_buy_idx == recent_strokes[1]["end_idx"]
                      first_buy_low == recent_strokes[1].end
                      i == rows - 1
                      current_low == lows[3]
                      center_high == zs.high
                  IN  IF current_low > first_buy_low /\ i >= 2 /\ first_buy_idx >= 2
                         /\ LastBarsBottomFractal(lows) /\ hist_now < hist_first
                      THEN [returned |-> "dict",
                            signal |-> IF current_low > center_high THEN "strong-second-buy"
                                       ELSE "standard-second-buy",
                            grade |-> "none",
                            action |-> "buy",
                            risk_level |-> IF current_low > center_high THEN "low" ELSE "medium",
                            entry_price |-> 100 * current_price,
                            stop_loss |-> 98 * first_buy_low,
                            target_price |-> IF current_low > center_high
                                             THEN 100 * max_price ELSE 100 * center_high]
                      ELSE Blank

\* the first-buy arm (lines 1094-1127)
Buy1Result(div, current_price, strks, zs) ==
    LET recent_down == OfType(strks, "down")
    IN  IF recent_down = <<>> THEN Blank
        ELSE LET recent_low == Last(recent_down).end
                 rebound_over_1 == 100 * (current_price - recent_low) > recent_low
                 has_divergence == div.has_divergence /\ div.divergence_type = "bottom"
             IN  IF rebound_over_1 \/ has_divergence
                 THEN [returned |-> "dict",
                       signal |-> IF has_divergence THEN "first-buy+divergence" ELSE "first-buy",
                       grade |-> "none",
                       action |-> IF has_divergence THEN "buy" ELSE "watch",
                       risk_level |-> IF has_divergence THEN "medium" ELSE "high",
                       entry_price |-> 100 * current_price,
                       stop_loss |-> 97 * recent_low,
                       target_price |-> 100 * zs.low]
                 ELSE Blank

\* one call of analyze_stock on what the provider answers for an instrument:
\* s.provider is "raise" (pro.daily raises), "none" (it returns None),
\* "malformed" (a frame without the close / high / low columns) or "frame"
analyze_stock(s) ==
    IF s.provider = "raise" THEN NoneResult
    ELSE IF HasNoData(s.provider, s.rows) THEN NoneResult
    ELSE IF s.provider = "malformed" THEN NoneResult
    ELSE LET div == check_divergence(s.current_price, s.strokes, s.zhongshu)
             sell == check_sell_signals(s.current_price, s.strokes, s.zhongshu)
             arm == Branch(sell, s.current_price, s.strokes, s.zhongshu, s.rows)
             breakout_pct == BreakoutPct(s.current_price, s.zhongshu)
             thr == get_dynamic_threshold(s.atr, s.avg_price)
             ctx3 == Buy3Context(breakout_pct, DistanceToMax(s.current_price, s.max_price),
                                 s.volume, s.ma20_vol)
         IN  CASE arm = "sell" ->
                    SellResult(sell,
                               score_sell_signal(SellContext(s.current_price, s.zhongshu, s.volume)),
                               s.current_price, s.strokes, s.min_price)
               [] arm = "buy3" ->
                    Buy3Result(div, thr, score_buy_signal(ctx3, "buy3"), s.current_price,
                               s.strokes, s.zhongshu, s.max_price)
               [] arm = "buy2" ->
                    Buy2Result(s.current_price, s.strokes, s.zhongshu, s.rows, s.max_price,
                               s.lows, s.hist_now, s.hist_first)
               [] arm = "buy1" -> Buy1Result(div, s.current_price, s.strokes, s.zhongshu)
               [] OTHER -> Blank

\* if result: (a dict with keys is truthy, None is not)
Truthy(r) == r.returned = "dict"

\* the entry of the results list: the returned dict, identified by its 'code'
ResultEntry(s, r) == [code |-> s.code, signal |-> r.signal, action |-> r.action]

\* the loop body with the append made unconditional
LoopBody_AppendAll(res, s) == Append(res, ResultEntry(s, analyze_stock(s)))

\* result = analyze_stock(symbol, name, days); if result: results.append(result)
LoopBody(res, s) ==
    LET r == analyze_stock(s)
    IN  IF Truthy(r) THEN Append(res, ResultEntry(s, r)) ELSE res

----------------------------------------------------------------------------
(* The pipeline on a fetched frame: analyze_stock lines 868-870 *)

Init ==
    /\ pc = "fetch"
    /\ df = <<>>
    /\ processed = <<>>
    /\ fractals = <<>>
    /\ strokes = <<>>
    /\ ding_count = 0
    /\ di_count = 0
    /\ zhongshu = NoZone
    /\ OptIdle
    /\ RunIdle
    /\ BatchIdle
    /\ StoreIdle

\* df_processed = handle_inclusion(df); strokes, ding_count, di_count = find_strokes(df_processed)
MergeAndStroke ==
    /\ processed' = handle_inclusion(df)
    /\ LET r == find_strokes(processed')
       IN  /\ strokes' = r.strokes
           /\ ding_count' = r.ding_count
           /\ di_count' = r.di_count
           /\ fractals' = r.fractals

\* the provider delivers one more row
FetchBar ==
    /\ pc = "fetch"
    /\ Len(df) < MaxBars
    /\ \E b \in Bars : df' = Append(df, b)
    /\ UNCHANGED <<pc, processed, fractals, strokes, ding_count, di_count, zhongshu, optVars, runVars, batchVars, storeVars>>

\* lines 868-870; calculate_zhongshu(df) also leaves the column 'mid' in df
ChanlunAnalysis ==
    /\ pc = "fetch"
    /\ MergeAndStroke
    /\ zhongshu' = calculate_zhongshu(df)
    /\ df' = AddMidColumn(df)
    /\ pc' = "done"
    /\ UNCHANGED <<optVars, runVars, batchVars, storeVars>>

Next == FetchBar \/ ChanlunAnalysis

Spec == Init /\ [][Next]_vars

----------------------------------------------------------------------------
(* Swing specification: longer frames of narrow bars *)

FetchNarrowBar ==
    /\ pc = "fetch"
    /\ Len(df) < MaxSwingBars
    /\ \E b \in NarrowBars : df' = Append(df, b)
    /\ UNCHANGED <<pc, processed, fractals, strokes, ding_count, di_count, zhongshu, optVars, runVars, batchVars, storeVars>>

NextSwing == FetchNarrowBar \/ ChanlunAnalysis

SpecSwing == Init /\ [][NextSwing]_vars

----------------------------------------------------------------------------
(* Rising specification: every bar's high and low are not below the previous bar's *)

FetchRisingBar ==
    /\ pc = "fetch"
    /\ Len(df) < MaxRisingBars
    /\ \E b \in RisingBars :
          /\ df # <<>> => (b.high >= df[Len(df)].high /\ b.low >= df[Len(df)].low)
          /\ df' = Append(df, b)
    /\ UNCHANGED <<pc, processed, fractals, strokes, ding_count, di_count, zhongshu, optVars, runVars, batchVars, storeVars>>

\* handle_inclusion followed by find_strokes on the rising frame
RisingAnalysis ==
    /\ pc = "fetch"
    /\ Len(df) >= MinRisingBars
    /\ MergeAndStroke
    /\ pc' = "done"
    /\ UNCHANGED <<df, zhongshu, optVars, runVars, batchVars, storeVars>>

NextRising == FetchRisingBar \/ RisingAnalysis

SpecRising == Init /\ [][NextRising]_vars

----------------------------------------------------------------------------
(* Optimizer specification: one call of the threshold engine or of a scorer *)

AtrSamples == 0..MaxAtr
AvgPriceSamples == {0, 40, 100}
\* percentages in tenths of a percent
BreakoutSamples == {0, 10, 30, 50, 80, 100, 101, 120, 150, 151, 250, 251}
BreakdownSamples == {-60, 0, 15, 20, 30, 40, 50, 60}
DistanceSamples == {0, 150, 200, 300, 400}
ReboundSamples == {0, 10, 20, 50}
Trends == {"bear", "neutral", "bull"}

Buy3Contexts ==
    [breakout_pct : {Rat(k, 10) : k \in BreakoutSamples},
     current_vol : 0..MaxVol,
     ma20_vol : 0..MaxAvgVol,
     is_standard_pattern : BOOLEAN,
     distance_to_max : {Rat(k, 10) : k \in DistanceSamples},
     market_trend : Trends,
     sublevel_confirm : BOOLEAN]

Buy2Contexts ==
    [pullback_depth : {Rat(k, 1) : k \in {30, 50, 70, 90}},
     current_vol : 0..MaxVol,
     ma20_vol : {MaxAvgVol},
     has_bottom_fractal : BOOLEAN,
     current_price : {0, 100},
     stop_loss_price : {94, 96, 98},
     market_trend : Trends]

SellContexts ==
    [breakout_pct : {Rat(k, 10) : k \in BreakdownSamples},
     current_vol : 0..MaxVol,
     ma20_vol : 0..MaxAvgVol,
     rebound_pct : {Rat(k, 10) : k \in ReboundSamples},
     market_trend : Trends,
     sublevel_confirm : BOOLEAN]

InitOptimizer ==
    /\ pc = "idle"
    /\ df = <<>>
    /\ processed = <<>>
    /\ fractals = <<>>
    /\ strokes = <<>>
    /\ ding_count = 0
    /\ di_count = 0
    /\ zhongshu = NoZone
    /\ OptIdle
    /\ RunIdle
    /\ BatchIdle
    /\ StoreIdle

GetDynamicThreshold ==
    /\ pc = "idle"
    /\ \E atr \in AtrSamples, avg_price \in AvgPriceSamples :
          /\ volatility' = [atr |-> atr, avg_price |-> avg_price]
          /\ threshold' = get_dynamic_threshold(atr, avg_price)
    /\ pc' = "threshold"
    /\ UNCHANGED <<chanVars, context, signal_score, runVars, batchVars, storeVars>>

ScoreBuy3Signal ==
    /\ pc = "idle"
    /\ \E ctx \in Buy3Contexts :
          /\ context' = ctx
          /\ signal_score' = score_buy_signal(ctx, "buy3")
    /\ pc' = "scored-buy3"
    /\ UNCHANGED <<chanVars, volatility, threshold, runVars, batchVars, storeVars>>

ScoreBuy2Signal ==
    /\ pc = "idle"
    /\ \E ctx \in Buy2Contexts :
          /\ context' = ctx
          /\ signal_score' = score_buy_signal(ctx, "buy2")
    /\ pc' = "scored-buy2"
    /\ UNCHANGED <<chanVars, volatility, threshold, runVars, batchVars, storeVars>>

ScoreSellSignal ==
    /\ pc = "idle"
    /\ \E ctx \in SellContexts :
          /\ context' = ctx
          /\ signal_score' = score_sell_signal(ctx)
    /\ pc' = "scored-sell"
    /\ UNCHANGED <<chanVars, volatility, threshold, runVars, batchVars, storeVars>>

NextOptimizer ==
    GetDynamicThreshold \/ ScoreBuy3Signal \/ ScoreBuy2Signal \/ ScoreSellSignal

SpecOptimizer == InitOptimizer /\ [][NextOptimizer]_vars

----------------------------------------------------------------------------
(* Analysis specification: one call of analyze_stock.  A frame of at least *)
(* MinBars rows is represented by what the cascade reads from it: the       *)
(* strokes, the zone, the latest close and, per arm, the facts that arm     *)
(* reads.                                                                   *)

RowSamples == {0, MinBars - 1, MinBars}
StrokePrices == {900, 1050, 1200}
CurrentPrices == {870, 905, 950, 1050, 1111, 1120, 1160, 1210, 1300}
Zones == {[low |-> 1000, high |-> 1100, nan |-> FALSE],
          [low |-> 1100, high |-> 1150, nan |-> FALSE],
          [low |-> 860, high |-> 1150, nan |-> FALSE]}
MaxPrices == {1300, 2000}
MinPrices == {850}
VolumeSamples == {NaNVol, 0, MaxVol}
AvgVolumeSamples == {NaNVol, 0, MaxAvgVol}
VolatilitySamples == {[atr |-> 1, avg_price |-> 100], [atr |-> 3, avg_price |-> 100],
                      [atr |-> 5, avg_price |-> 100]}
\* <<low[i-2], low[i-1], low[i]>> of a frame whose latest close is current_price
LowSamples(current_price) ==
    {<<c, c - 5, c>> : c \in {current_price - 5, current_price - 60}}
    \cup {<<c + 10, c + 5, c>> : c \in {current_price - 5, current_price - 60}}
HistSamples == {<<1, 2>>, <<2, 1>>}

\* the latest volume belongs to the window of the 20-bar mean: a NaN latest
\* volume makes the mean NaN, and the mean is 0 only if the latest volume is 0
VolumesAgree(volume, ma20_vol) ==
    /\ volume = NaNVol => ma20_vol = NaNVol
    /\ ma20_vol = 0 => volume = 0

\* the records find_strokes appends (lines 676 and 681)
StrokeSet ==
    {st \in [type : {"up", "down"}, start : StrokePrices, end : StrokePrices] :
        \/ st.type = "up" /\ st.end > st.start
        \/ st.type = "down" /\ st.end < st.start}

StrokeLists == UNION {[1..n -> StrokeSet] : n \in 0..MaxStrokes}

InitAnalyze ==
    /\ pc = "call"
    /\ df = <<>>
    /\ processed = <<>>
    /\ fractals = <<>>
    /\ strokes = <<>>
    /\ ding_count = 0
    /\ di_count = 0
    /\ zhongshu = NoZone
    /\ OptIdle
    /\ RunIdle
    /\ BatchIdle
    /\ StoreIdle

\* lines 849-852 and 1148-1149: no frame, a short frame or a provider exception
AnalyzeNoData ==
    /\ pc = "call"
    /\ \E prov \in {"none", "raise", "frame"}, rows \in RowSamples :
          /\ prov # "frame" => rows = 0
          /\ prov = "raise" \/ HasNoData(prov, rows)
          /\ provider' = prov
          /\ quote' = [rows |-> rows]
    /\ result' = NoneResult
    /\ pc' = "analyzed"
    /\ UNCHANGED <<chanVars, optVars, divergence, sell_signal, batchVars, storeVars>>

\* a frame of enough rows without one of the price columns: the read of lines
\* 862-865 raises KeyError and the except clause of lines 1148-1149 returns None
AnalyzeMalformed ==
    /\ pc = "call"
    /\ \E missing \in {"close", "high", "low"} :
          quote' = [rows |-> MinBars, missing |-> missing]
    /\ provider' = "malformed"
    /\ result' = analyze_stock([provider |-> "malformed", rows |-> MinBars])
    /\ pc' = "analyzed"
    /\ UNCHANGED <<chanVars, optVars, divergence, sell_signal, batchVars, storeVars>>

\* lines 862-879: the structure every arm starts from
Structure(rows, strks, zs, current_price) ==
    /\ ~HasNoData("frame", rows)
    /\ provider' = "frame"
    /\ strokes' = strks
    /\ zhongshu' = zs
    /\ divergence' = check_divergence(current_price, strks, zs)
    /\ sell_signal' = check_sell_signals(current_price, strks, zs)
    /\ pc' = "analyzed"
    /\ UNCHANGED <<df, processed, fractals, ding_count, di_count, batchVars, storeVars>>

AnalyzeSell ==
    /\ pc = "call"
    /\ \E rows \in RowSamples, strks \in StrokeLists, zs \in Zones,
          current_price \in CurrentPrices, volume \in VolumeSamples,
          ma20_vol \in AvgVolumeSamples, min_price \in MinPrices :
          /\ Structure(rows, strks, zs, current_price)
          /\ Branch(sell_signal', current_price, strks, zs, rows) = "sell"
          /\ VolumesAgree(volume, ma20_vol)
          /\ quote' = [rows |-> rows, current_price |-> current_price,
                       volume |-> volume, ma20_vol |-> ma20_vol, min_price |-> min_price]
          /\ context' = SellContext(current_price, zs, volume)
          /\ signal_score' = score_sell_signal(context')
          /\ result' = SellResult(sell_signal', signal_score', current_price, strks, min_price)
    /\ UNCHANGED <<volatility, threshold>>

AnalyzeThirdBuy ==
    /\ pc = "call"
    /\ \E rows \in RowSamples, strks \in StrokeLists, zs \in Zones,
          current_price \in CurrentPrices :
          /\ Structure(rows, strks, zs, current_price)
          /\ Branch(sell_signal', current_price, strks, zs, rows) = "buy3"
          /\ UpStrokeAboveZone(strks, zs)
          /\ \E volume \in VolumeSamples, ma20_vol \in AvgVolumeSamples,
                max_price \in MaxPrices, vol \in VolatilitySamples :
                /\ VolumesAgree(volume, ma20_vol)
                /\ LET breakout_pct == BreakoutPct(current_price, zs)
                       thr == get_dynamic_threshold(vol.atr, vol.avg_price)
                       valid == is_valid_breakout(breakout_pct, thr, "buy3").valid
                       ctx == Buy3Context(breakout_pct, DistanceToMax(current_price, max_price),
                                          volume, ma20_vol)
                   IN  /\ quote' = [rows |-> rows, current_price |-> current_price,
                                    volume |-> volume, ma20_vol |-> ma20_vol,
                                    max_price |-> max_price]
                       /\ volatility' = vol
                       /\ threshold' = thr
                       /\ context' = IF valid THEN ctx ELSE NoContext
                       /\ signal_score' = IF valid THEN score_buy_signal(ctx, "buy3") ELSE NoScore
                       /\ result' = Buy3Result(divergence', thr, signal_score', current_price,
                                               strks, zs, max_price)

AnalyzeSecondBuy ==
    /\ pc = "call"
    /\ \E rows \in RowSamples, strks \in StrokeLists, zs \in Zones,
          current_price \in CurrentPrices, max_price \in MaxPrices, hist \in HistSamples :
          \E lows \in LowSamples(current_price) :
              /\ Structure(rows, strks, zs, current_price)
              /\ Branch(sell_signal', current_price, strks, zs, rows) = "buy2"
              /\ IsDownUpDown(strks)
              /\ quote' = [rows |-> rows, current_price |-> current_price,
                           max_price |-> max_price, lows |-> lows,
                           hist_now |-> hist[1], hist_first |-> hist[2]]
              /\ result' = Buy2Result(current_price, strks, zs, rows, max_price,
                                      lows, hist[1], hist[2])
    /\ UNCHANGED optVars

AnalyzeFirstBuy ==
    /\ pc = "call"
    /\ \E rows \in RowSamples, strks \in StrokeLists, zs \in Zones,
          current_price \in CurrentPrices :
          /\ Structure(rows, strks, zs, current_price)
          /\ Branch(sell_signal', current_price, strks, zs, rows) = "buy1"
          /\ quote' = [rows |-> rows, current_price |-> current_price]
          /\ result' = Buy1Result(divergence', current_price, strks, zs)
    /\ UNCHANGED optVars

\* no arm is entered, or the arm entered fails its first inner test (lines 955, 1038)
AnalyzeNoSignal ==
    /\ pc = "call"
    /\ \E rows \in RowSamples, strks \in StrokeLists, zs \in Zones,
          current_price \in CurrentPrices :
          /\ Structure(rows, strks, zs, current_price)
          /\ LET arm == Branch(sell_signal', current_price, strks, zs, rows)
             IN  \/ arm = "none"
                 \/ arm = "buy3" /\ ~UpStrokeAboveZone(strks, zs)
                 \/ arm = "buy2" /\ ~IsDownUpDown(strks)
          /\ quote' = [rows |-> rows, current_price |-> current_price]
          /\ result' = Blank
    /\ UNCHANGED optVars

NextAnalyze ==
    \/ AnalyzeNoData
    \/ AnalyzeMalformed
    \/ AnalyzeSell
    \/ AnalyzeThirdBuy
    \/ AnalyzeSecondBuy
    \/ AnalyzeFirstBuy
    \/ AnalyzeNoSignal

SpecAnalyze == InitAnalyze /\ [][NextAnalyze]_vars

----------------------------------------------------------------------------
(* Batch specification: the analysis loop of main over stock_list *)

\* what the cascade reads from a frame of MinBars rows without strokes
QuietFrame ==
    [provider |-> "frame", rows |-> MinBars, strokes |-> <<>>,
     zhongshu |-> [low |-> 1000, high |-> 1100, nan |-> FALSE],
     current_price |-> 950, volume |-> MaxVol, ma20_vol |-> MaxAvgVol,
     max_price |-> 1300, min_price |-> 850, lows |-> <<945, 940, 945>>,
     hist_now |-> 1, hist_first |-> 2, atr |-> 3, avg_price |-> 100]

WithCode(f, code) == [k \in DOMAIN f \cup {"code"} |-> IF k = "code" THEN code ELSE f[k]]

\* the instruments of the batch and what the provider answers for each
Instruments ==
    {WithCode([QuietFrame EXCEPT !.provider = "raise", !.rows = 0], "600001"),
     WithCode([QuietFrame EXCEPT !.provider = "none", !.rows = 0], "600002"),
     WithCode([QuietFrame EXCEPT !.rows = MinBars - 1], "000003"),
     WithCode([QuietFrame EXCEPT !.strokes =
                  <<[type |-> "down", start |-> 1050, end |-> 900],
                    [type |-> "up", start |-> 900, end |-> 1050],
                    [type |-> "down", start |-> 1050, end |-> 900]>>], "000004"),
     WithCode([QuietFrame EXCEPT !.strokes =
                  <<[type |-> "down", start |-> 1050, end |-> 900]>>], "000005"),
     WithCode(QuietFrame, "000006")}

InitBatch ==
    /\ pc = "list"
    /\ df = <<>>
    /\ processed = <<>>
    /\ fractals = <<>>
    /\ strokes = <<>>
    /\ ding_count = 0
    /\ di_count = 0
    /\ zhongshu = NoZone
    /\ OptIdle
    /\ RunIdle
    /\ BatchIdle
    /\ StoreIdle

\* the sidebar adds one instrument that is not yet selected (lines 1522-1524)
AddStock ==
    /\ pc = "list"
    /\ Len(stock_list) < MaxStocks
    /\ \E s \in Instruments :
          /\ \A k \in 1..Len(stock_list) : stock_list[k].code # s.code
          /\ stock_list' = Append(stock_list, s)
    /\ UNCHANGED <<pc, chanVars, optVars, runVars, batch_i, results, storeVars>>

\* the button is pressed on a non-empty list: results = [] (lines 1661-1670)
StartBatch ==
    /\ pc = "list"
    /\ stock_list # <<>>
    /\ results' = <<>>
    /\ batch_i' = 0
    /\ pc' = "loop"
    /\ UNCHANGED <<chanVars, optVars, runVars, stock_list, storeVars>>

\* one iteration of for i, (symbol, name) in enumerate(stock_list)
BatchStep ==
    /\ pc = "loop"
    /\ batch_i < Len(stock_list)
    /\ results' = LoopBody(results, Iloc(stock_list, batch_i))
    /\ result' = analyze_stock(Iloc(stock_list, batch_i))
    /\ batch_i' = batch_i + 1
    /\ UNCHANGED <<pc, chanVars, optVars, provider, quote, divergence, sell_signal, stock_list, storeVars>>

\* the loop is exhausted: st.session_state['results'] = results
BatchFinish ==
    /\ pc = "loop"
    /\ batch_i = Len(stock_list)
    /\ pc' = "batch-done"
    /\ history' = save_analysis_history(history, results, Len(save_calls) + 1)
    /\ save_calls' = Append(save_calls, [timestamp |-> Len(save_calls) + 1, results |-> results])
    /\ UNCHANGED <<chanVars, optVars, runVars, batchVars, watchlist, watch_call>>

NextBatch == AddStock \/ StartBatch \/ BatchStep \/ BatchFinish

SpecBatch == InitBatch /\ [][NextBatch]_vars

----------------------------------------------------------------------------
(* Divergence specification: one call of check_divergence *)

DivergencePrices == {880, 900, 960, 1000}
DivergenceCloses == {870, 990, 1050}

\* stroke records over DivergencePrices
DivergenceStrokes ==
    {st \in [type : {"up", "down"}, start : DivergencePrices, end : DivergencePrices] :
        \/ st.type = "up" /\ st.end > st.start
        \/ st.type = "down" /\ st.end < st.start}

InitDivergence ==
    /\ pc = "div-call"
    /\ df = <<>>
    /\ processed = <<>>
    /\ fractals = <<>>
    /\ strokes = <<>>
    /\ ding_count = 0
    /\ di_count = 0
    /\ zhongshu = NoZone
    /\ OptIdle
    /\ RunIdle
    /\ BatchIdle
    /\ StoreIdle

\* divergence = check_divergence(df, strokes, zhongshu) (line 876)
CheckDivergence ==
    /\ pc = "div-call"
    /\ \E strks \in UNION {[1..n -> DivergenceStrokes] : n \in 0..MaxDivergenceStrokes},
          current_price \in DivergenceCloses :
          /\ strokes' = strks
          /\ zhongshu' = [low |-> 1000, high |-> 1040, nan |-> FALSE]
          /\ quote' = [rows |-> MinBars, current_price |-> current_price]
          /\ divergence' = check_divergence(current_price, strks, zhongshu')
    /\ pc' = "div-checked"
    /\ UNCHANGED <<df, processed, fractals, ding_count, di_count, optVars,
                   provider, sell_signal, result, batchVars, storeVars>>

NextDivergence == CheckDivergence

SpecDivergence == InitDivergence /\ [][NextDivergence]_vars

----------------------------------------------------------------------------
(* Watchlist specification: add_to_watchlist and remove_from_watchlist, one *)
(* call at a time, on the stored watchlist.json                              *)

WatchCodes == {"600001", "600002", "000003"}
WatchNames == {"alpha", "beta"}
\* datetime.now().strftime('%Y-%m-%d %H:%M')
WatchTimes == {"09:30", "09:31"}

InitWatchlist ==
    /\ pc = "watch"
    /\ df = <<>>
    /\ processed = <<>>
    /\ fractals = <<>>
    /\ strokes = <<>>
    /\ ding_count = 0
    /\ di_count = 0
    /\ zhongshu = NoZone
    /\ OptIdle
    /\ RunIdle
    /\ BatchIdle
    /\ StoreIdle

AddToWatchlist ==
    /\ pc = "watch"
    /\ \E code \in WatchCodes, name \in WatchNames, now \in WatchTimes :
          LET r == add_to_watchlist(watchlist, code, name, now)
          IN  /\ watchlist' = r.watchlist
              /\ watch_call' = [op |-> "add", code |-> code, returned |-> r.returned,
                                before |-> watchlist]
    /\ UNCHANGED <<pc, chanVars, optVars, runVars, batchVars, history, save_calls>>

RemoveFromWatchlist ==
    /\ pc = "watch"
    /\ \E code \in WatchCodes :
          /\ watchlist' = remove_from_watchlist(watchlist, code)
          /\ watch_call' = [op |-> "remove", code |-> code, returned |-> FALSE,
                            before |-> watchlist]
    /\ UNCHANGED <<pc, chanVars, optVars, runVars, batchVars, history, save_calls>>

NextWatchlist == AddToWatchlist \/ RemoveFromWatchlist

SpecWatchlist == InitWatchlist /\ [][NextWatchlist]_vars

----------------------------------------------------------------------------
(* History specification: successive calls of save_analysis_history on the  *)
(* stored analysis_history.json.  The timestamp is the reading of a clock   *)
(* that advances by one between two calls.                                   *)

\* the results lists handed to save_analysis_history
BatchSamples ==
    {<<>>, <<[code |-> "600001", signal |-> "third-buy", action |-> "buy"]>>}

FullBatches(calls) == Cardinality({k \in 1..Len(calls) : calls[k].results # <<>>})

InitHistory ==
    /\ pc = "history"
    /\ df = <<>>
    /\ processed = <<>>
    /\ fractals = <<>>
    /\ strokes = <<>>
    /\ ding_count = 0
    /\ di_count = 0
    /\ zhongshu = NoZone
    /\ OptIdle
    /\ RunIdle
    /\ BatchIdle
    /\ StoreIdle

SaveAnalysisHistory ==
    /\ pc = "history"
    /\ Len(save_calls) < MaxSaves
    /\ \E batch_results \in BatchSamples :
          LET now == Len(save_calls) + 1
          IN  /\ batch_results # <<>> => FullBatches(save_calls) < MaxFullBatches
              /\ history' = save_analysis_history(history, batch_results, now)
              /\ save_calls' = Append(save_calls,
                                      [timestamp |-> now, results |-> batch_results])
    /\ UNCHANGED <<pc, chanVars, optVars, runVars, batchVars, watchlist, watch_call>>

NextHistory == SaveAnalysisHistory

SpecHistory == InitHistory /\ [][NextHistory]_vars

----------------------------------------------------------------------------
(* Claims *)

\* union of the [low, high] ranges of a non-empty run of bars
RangeUnion(run) ==
    [low |-> CHOOSE l \in {run[k].low : k \in 1..Len(run)} :
                 \A k \in 1..Len(run) : l <= run[k].low,
     high |-> CHOOSE h \in {run[k].high : k \in 1..Len(run)} :
                 \A k \in 1..Len(run) : h >= run[k].high]

\* out is, bar by bar, the range union of consecutive runs that partition frame in order
RECURSIVE RunsCover(_, _)
RunsCover(frame, out) ==
    IF out = <<>> THEN frame = <<>>
    ELSE \E r \in 1..Len(frame) :
            /\ RangeUnion(SubSeq(frame, 1, r)) = Head(out)
            /\ RunsCover(SubSeq(frame, r + 1, Len(frame)), Tail(out))

\* C1: the strokes emitted by find_strokes alternate in direction: no two
\* consecutive strokes are both up or both down, also after a discarded candidate.
C1_StrokesAlternate ==
    pc = "done" =>
        \A k \in 1..(Len(strokes) - 1) : strokes[k].type # strokes[k + 1].type

\* C4: handle_inclusion returns no more bars than it was given, every output
\* bar is the range union of a run of consecutive input bars, the runs partition
\* the input in order, and an empty input gives an empty output.
C4_InclusionCoversRuns ==
    pc = "done" =>
        /\ Len(processed) <= Len(df)
        /\ RunsCover(df, processed)
        /\ (df = <<>> => processed = <<>>)

C4_Witness ==
    /\ pc = "done"
    /\ Len(processed) >= 2
    /\ Len(processed) < Len(df)
    /\ \A k \in 1..(Len(df) - 1) : df[k] # df[k + 1]

\* C5: in the fractal list built from the output of handle_inclusion no two
\* adjacent fractals have the same kind.
C5_FractalsAlternate ==
    pc = "done" =>
        \A k \in 1..(Len(fractals) - 1) : fractals[k].type # fractals[k + 1].type

\* C6: a series of at least 30 bars whose highs and lows never fall yields
\* zero top fractals, zero bottom fractals and zero strokes.
C6_RisingHasNoFractals ==
    (pc = "done" /\ Len(df) >= MinRisingBars) =>
        /\ ding_count = 0
        /\ di_count = 0
        /\ fractals = <<>>
        /\ strokes = <<>>

C6_Witness ==
    /\ pc = "done"
    /\ Len(df) >= MinRisingBars
    /\ Len(processed) >= 5
    /\ Len(processed) < Len(df)

\* C7: calculate_zhongshu returns low <= high for every non-empty bar window.
C7_ZoneOrdered ==
    (pc = "done" /\ df # <<>>) => zhongshu.low <= zhongshu.high

C7_Witness ==
    /\ pc = "done"
    /\ Len(df) >= 3
    /\ zhongshu.low < zhongshu.high
    /\ zhongshu.low % 5 # 0

GradeRank(grade) ==
    CASE grade = "A" -> 4 [] grade = "B" -> 3 [] grade = "C" -> 2
      [] grade = "D" -> 1 [] OTHER -> 0

TrendRank(trend) ==
    CASE trend = "bull" -> 2 [] trend = "neutral" -> 1 [] OTHER -> 0

\* the third-buy contexts that differ from ctx in one factor, improved
BetterBuy3(ctx) ==
    {[ctx EXCEPT !.current_vol = v, !.ma20_vol = m] :
        <<v, m>> \in {w \in (0..MaxVol) \X (0..MaxAvgVol) :
            RatLeq(VolRatio(ctx), Rat(w[1], Max2(w[2], 1)))}}
    \cup {[ctx EXCEPT !.distance_to_max = Rat(k, 10)] :
            k \in {j \in DistanceSamples : RatLeq(ctx.distance_to_max, Rat(j, 10))}}
    \cup {[ctx EXCEPT !.market_trend = t] :
            t \in {u \in Trends : TrendRank(u) >= TrendRank(ctx.market_trend)}}
    \cup {[ctx EXCEPT !.is_standard_pattern = TRUE]}
    \cup {[ctx EXCEPT !.sublevel_confirm = TRUE]}

\* the sell contexts that differ from ctx in one factor, improved
BetterSell(ctx) ==
    {[ctx EXCEPT !.breakout_pct = Rat(k, 10)] :
        k \in {j \in BreakdownSamples :
            RatLeq(RatAbs(ctx.breakout_pct), RatAbs(Rat(j, 10)))}}
    \cup {[ctx EXCEPT !.current_vol = v, !.ma20_vol = m] :
        <<v, m>> \in {w \in (0..MaxVol) \X (0..MaxAvgVol) :
            RatLeq(VolRatio(ctx), Rat(w[1], Max2(w[2], 1)))}}
    \cup {[ctx EXCEPT !.market_trend = t] :
            t \in {u \in Trends : TrendRank(u) <= TrendRank(ctx.market_trend)}}
    \cup {[ctx EXCEPT !.sublevel_confirm = TRUE]}

\* C8: the grade returned by score_buy_signal (third buy) and score_sell_signal
\* is a function of the context and never gets worse when one positively
\* weighted factor improves with the other fields fixed.
C8_GradeMonotone ==
    /\ pc = "scored-buy3" =>
        \A c2 \in BetterBuy3(context) :
            GradeRank(score_buy_signal(c2, "buy3").grade) >= GradeRank(signal_score.grade)
    /\ pc = "scored-sell" =>
        \A c2 \in BetterSell(context) :
            GradeRank(score_sell_signal(c2).grade) >= GradeRank(signal_score.grade)

C8_Witness ==
    /\ pc = "scored-buy3"
    /\ signal_score.grade = "C"
    /\ \E c2 \in BetterBuy3(context) :
          /\ c2.market_trend # context.market_trend
          /\ score_buy_signal(c2, "buy3").grade = "B"

\* C9: the breakout_max limit never narrows as the volatility ratio grows, so a
\* breakout accepted against the maximum at a lower volatility is never
\* rejected as chase risk at a higher one.
C9_BreakoutMaxWidens ==
    pc = "threshold" =>
        \A atr \in AtrSamples, avg_price \in AvgPriceSamples :
            RatLeq(VolatilityRatio(volatility.atr, volatility.avg_price),
                   VolatilityRatio(atr, avg_price))
            => LET wider == get_dynamic_threshold(atr, avg_price)
               IN  /\ wider.buy3_max >= threshold.buy3_max
                   /\ \A k \in BreakoutSamples :
                        is_valid_breakout(Rat(k, 10), threshold, "buy3").reason # "chase"
                        => is_valid_breakout(Rat(k, 10), wider, "buy3").reason # "chase"

C9_Witness ==
    /\ pc = "threshold"
    /\ threshold.volatility_level = "low"
    /\ volatility.atr > 0
    /\ \E atr \in AtrSamples, avg_price \in AvgPriceSamples :
          /\ get_dynamic_threshold(atr, avg_price).volatility_level = "high"
          /\ is_valid_breakout(Rat(101, 10), threshold, "buy3").reason = "chase"
          /\ is_valid_breakout(Rat(101, 10), get_dynamic_threshold(atr, avg_price), "buy3").valid

Outcomes ==
    {"third-sell", "second-sell", "third-buy", "third-buy+divergence", "breakout-observe",
     "breakout-insufficient", "strong-second-buy", "standard-second-buy",
     "first-buy", "first-buy+divergence", "none"}

\* C2: for every frame of at least 20 bars and every stroke / zone / price
\* state analyze_stock returns a result that carries exactly one outcome.
C2_ClassificationTotal ==
    (pc = "analyzed" /\ provider = "frame" /\ quote.rows >= MinBars) =>
        /\ result.returned = "dict"
        /\ result.signal \in Outcomes

\* C3: with the last three strokes down, up, down, no sell and no third-buy arm,
\* the current low 2% above the first down-stroke's end, a bottom fractal on the
\* last three bars and a strictly smaller histogram sum now than around the first
\* low, analyze_stock emits a second-buy signal.
C3_SecondBuyEmitted ==
    (/\ pc = "analyzed"
     /\ provider = "frame"
     /\ quote.rows >= MinBars
     /\ IsDownUpDown(strokes)
     /\ ~sell_signal.has_sell_signal
     /\ ~(quote.current_price > zhongshu.high)
     /\ "lows" \in DOMAIN quote
     /\ 100 * quote.lows[3] >= 102 * LastThree(strokes)[1].end
     /\ LastBarsBottomFractal(quote.lows)
     /\ quote.hist_now < quote.hist_first)
    => /\ result.returned = "dict"
       /\ result.signal \in {"strong-second-buy", "standard-second-buy"}

\* C10: with fewer than 20 bars, a None frame or a provider exception
\* analyze_stock returns None and produces no signal.
C10_NoDataReturnsNone ==
    (pc = "analyzed" /\ (provider \in {"none", "raise"} \/ quote.rows < MinBars)) =>
        /\ result = NoneResult
        /\ signal_score = NoScore

C10_Witness ==
    /\ pc = "analyzed"
    /\ provider = "frame"
    /\ quote.rows = MinBars - 1
    /\ result.returned = "None"

\* the instruments of list whose analysis alone returns a dict, in list order
RECURSIVE Succeeded(_)
Succeeded(list) ==
    IF list = <<>> THEN <<>>
    ELSE LET r == analyze_stock(Head(list))
         IN  (IF r.returned = "dict" THEN <<[code |-> Head(list).code, signal |-> r.signal,
                                             action |-> r.action]>>
              ELSE <<>>) \o Succeeded(Tail(list))

\* C11: in the batch loop an instrument whose analysis fails or returns nothing
\* never stops the loop: every instrument of the list is analysed, and the
\* results list holds exactly the results of the instruments that succeeded,
\* in input order.
C11_BatchContinues ==
    /\ pc = "loop" => results = Succeeded(SubSeq(stock_list, 1, batch_i))
    /\ pc = "batch-done" =>
          /\ batch_i = Len(stock_list)
          /\ results = Succeeded(stock_list)

C11_Witness ==
    /\ pc = "batch-done"
    /\ Len(stock_list) = MaxStocks
    /\ stock_list[1].provider = "raise"
    /\ analyze_stock(stock_list[2]).returned = "None"
    /\ Len(results) = 1
    /\ results[1].code = stock_list[MaxStocks].code

\* C12: when a required price column (high / low / close) is missing,
\* analyze_stock fails with a typed data-shape error surfaced to the caller, an
\* outcome distinguishable from the insufficient-data outcome (None).
C12_MalformedIsTypedError ==
    (pc = "analyzed" /\ provider = "malformed") =>
        /\ result.returned = "data-shape-error"
        /\ result # NoneResult

\* C13: whenever the average-volume denominator is zero or NaN, analyze_stock
\* substitutes 1 before scoring, the scorers never divide by a value below 1,
\* and no NaN ratio reaches the score.
C13_NoDegenerateRatio ==
    (pc = "analyzed" /\ "ma20_vol" \in DOMAIN context) =>
        /\ context.ma20_vol # NaNVol
        /\ context.ma20_vol >= 1
        /\ VolRatio(context) # NaNRatio

\* C14: every stroke emitted by find_strokes carries a start index and an end
\* index, each a valid position of the original (unmerged) bar sequence.
C14_StrokesCarryIndices ==
    pc = "done" =>
        \A k \in 1..Len(strokes) :
            /\ {"start_idx", "end_idx"} \subseteq DOMAIN strokes[k]
            /\ strokes[k]["start_idx"] \in 0..(Len(df) - 1)
            /\ strokes[k]["end_idx"] \in 0..(Len(df) - 1)

\* C15: no pipeline stage mutates its input: the analysis of a frame
\* (handle_inclusion, find_strokes, calculate_zhongshu) leaves the rows and
\* the columns of the bar sequence it was handed unchanged.
C15_StagesLeaveInputUnchanged ==
    [][(pc = "fetch" /\ pc' = "done") => df' = df]_vars

\* C16: for the buy and for the sell family, the volume ratio the scorer uses
\* is the latest bar's volume divided by the mean volume of the latest 20 bars.
C16_VolumeRatioAgainstMean ==
    (/\ pc = "analyzed"
     /\ "current_vol" \in DOMAIN context
     /\ quote.volume # NaNVol
     /\ quote.ma20_vol # NaNVol
     /\ quote.ma20_vol >= 1)
    => LET used == VolRatio(context)
       IN  used.n * quote.ma20_vol = quote.volume * used.d

\* C17: a sell signal always wins the cascade: whenever check_sell_signals
\* reports a third or second sell, the signal is that sell label with a sell or
\* reduce action, and the levels are the sell arm's (entry at the close, stop
\* above the last up-stroke, target below the frame's minimum): no buy arm
\* contributes the label or the levels, even if its conditions also hold.
C17_SellWinsCascade ==
    (/\ pc = "analyzed"
     /\ provider = "frame"
     /\ quote.rows >= MinBars
     /\ check_sell_signals(quote.current_price, strokes, zhongshu).has_sell_signal)
    => /\ result.returned = "dict"
       /\ result.signal = check_sell_signals(quote.current_price, strokes, zhongshu).sell_type
       /\ result.signal \in {"third-sell", "second-sell"}
       /\ result.action \in {"sell", "reduce"}
       /\ result.entry_price = 100 * quote.current_price
       /\ result.target_price = 95 * quote.min_price
       /\ result.stop_loss \in {102 * st.end : st \in {strokes[k] : k \in 1..Len(strokes)}}
                                \cup {105 * quote.current_price}

C17_Witness ==
    /\ pc = "analyzed"
    /\ result.signal = "third-sell"
    /\ IsDownUpDown(strokes)
    /\ quote.current_price < zhongshu.low
    /\ Buy1Result(divergence, quote.current_price, strokes, zhongshu).signal = "first-buy"

\* C18: whenever no sell signal, no third buy and no second buy matches (here:
\* the last three strokes are not down, up, down), the current price is below
\* the zone's low, a down-stroke exists, and the rebound off the most recent
\* down-stroke's low exceeds 1% or a bottom divergence is present,
\* analyze_stock emits a first buy: first-buy with action watch, or
\* first-buy+divergence with action buy when the bottom divergence is present;
\* for every stroke count, three or more included.
C18_FirstBuyEmitted ==
    (/\ pc = "analyzed"
     /\ provider = "frame"
     /\ quote.rows >= MinBars
     /\ ~sell_signal.has_sell_signal
     /\ ~IsDownUpDown(strokes)
     /\ quote.current_price < zhongshu.low
     /\ OfType(strokes, "down") # <<>>
     /\ \/ 100 * (quote.current_price - Last(OfType(strokes, "down")).end)
              > Last(OfType(strokes, "down")).end
        \/ divergence = [has_divergence |-> TRUE, divergence_type |-> "bottom"])
    => IF divergence = [has_divergence |-> TRUE, divergence_type |-> "bottom"]
       THEN result.signal = "first-buy+divergence" /\ result.action = "buy"
       ELSE result.signal = "first-buy" /\ result.action = "watch"

\* C19: when the second-buy acceptance test holds (the current low above the
\* first down-stroke's low, a bottom fractal on the last three bars, a smaller
\* histogram sum than around the first low), analyze_stock emits
\* strong-second-buy if the current low is above the zone's high, and
\* standard-second-buy if it is at or below the zone's high.
C19_SecondBuyClassified ==
    (/\ pc = "analyzed"
     /\ provider = "frame"
     /\ quote.rows >= MinBars
     /\ "lows" \in DOMAIN quote
     /\ ~sell_signal.has_sell_signal
     /\ IsDownUpDown(strokes)
     /\ quote.lows[3] > LastThree(strokes)[1].end
     /\ LastBarsBottomFractal(quote.lows)
     /\ quote.hist_now < quote.hist_first)
    => result.signal = IF quote.lows[3] > zhongshu.high THEN "strong-second-buy"
                       ELSE "standard-second-buy"

\* C20: check_sell_signals reports a second sell exactly when, among the last
\* three strokes, an up-stroke ending above the zone's high is followed by a
\* down-stroke ending inside the zone, and the current price is inside the zone
\* (above the zone's low and below its high).
C20_SecondSellInsideZone ==
    (/\ pc = "analyzed"
     /\ provider = "frame"
     /\ quote.rows >= MinBars
     /\ Len(strokes) >= 3)
    => (sell_signal.sell_type = "second-sell"
        <=> /\ LastThree(strokes)[1].type = "up"
            /\ LastThree(strokes)[2].type = "down"
            /\ LastThree(strokes)[1].end > zhongshu.high
            /\ LastThree(strokes)[2].end > zhongshu.low
            /\ LastThree(strokes)[2].end < zhongshu.high
            /\ quote.current_price > zhongshu.low
            /\ quote.current_price < zhongshu.high)

\* C21: in the third-buy branch a breakout percentage is valid exactly when
\* breakout_min <= pct <= breakout_max of the instrument's threshold; an invalid
\* breakout never yields a buy: below the minimum the signal is
\* breakout-insufficient, above the maximum breakout-observe, both with action
\* wait, no score, and no entry, stop-loss or target level.
C21_BreakoutValidated ==
    (/\ pc = "analyzed"
     /\ provider = "frame"
     /\ quote.rows >= MinBars
     /\ ~sell_signal.has_sell_signal
     /\ quote.current_price > zhongshu.high
     /\ UpStrokeAboveZone(strokes, zhongshu))
    => LET pct == BreakoutPct(quote.current_price, zhongshu)
           in_range == RatGe(pct, threshold.buy3_min) /\ RatLe(pct, threshold.buy3_max)
           no_levels == /\ result.entry_price = NoPrice
                        /\ result.stop_loss = NoPrice
                        /\ result.target_price = NoPrice
       IN  /\ in_range <=> result.signal \in {"third-buy", "third-buy+divergence"}
           /\ in_range <=> signal_score # NoScore
           /\ RatLt(pct, threshold.buy3_min) =>
                 /\ result.signal = "breakout-insufficient"
                 /\ result.action = "wait"
                 /\ no_levels
           /\ RatGt(pct, threshold.buy3_max) =>
                 /\ result.signal = "breakout-observe"
                 /\ result.action = "wait"
                 /\ no_levels

C21_Witness ==
    /\ pc = "analyzed"
    /\ result.signal = "third-buy"
    /\ LET pct == BreakoutPct(quote.current_price, zhongshu)
       IN  10 * pct.n = threshold.buy3_max * pct.d

\* C22: when a third-buy breakout is valid and check_divergence reports a top
\* divergence, the result's action is reduce and never buy, whatever grade the
\* scorer returns.
C22_TopDivergenceReduces ==
    (/\ pc = "analyzed"
     /\ provider = "frame"
     /\ quote.rows >= MinBars
     /\ ~sell_signal.has_sell_signal
     /\ quote.current_price > zhongshu.high
     /\ UpStrokeAboveZone(strokes, zhongshu)
     /\ is_valid_breakout(BreakoutPct(quote.current_price, zhongshu), threshold, "buy3").valid
     /\ divergence = [has_divergence |-> TRUE, divergence_type |-> "top"])
    => /\ result.action = "reduce"
       /\ result.signal = "third-buy+divergence"

C22_Witness ==
    /\ pc = "analyzed"
    /\ divergence = [has_divergence |-> TRUE, divergence_type |-> "top"]
    /\ result.signal = "third-buy+divergence"
    /\ result.grade \in {"A", "B"}
    /\ result.action = "reduce"

\* C23: with at least two down-strokes, check_divergence flags a bottom
\* divergence exactly when the latest down-stroke ends lower than the previous
\* one, its price drop is at least 80% of the previous drop (exactly 80%
\* included), and the current close is below the zone's low.
C23_BottomDivergenceAtLeast80 ==
    (pc = "div-checked" /\ Len(OfType(strokes, "down")) >= 2)
    => LET down_strokes == OfType(strokes, "down")
           last_down == down_strokes[Len(down_strokes)]
           prev_down == down_strokes[Len(down_strokes) - 1]
       IN  divergence = [has_divergence |-> TRUE, divergence_type |-> "bottom"]
           <=> /\ last_down.end < prev_down.end
               /\ 10 * (last_down.start - last_down.end) >= 8 * (prev_down.start - prev_down.end)
               /\ quote.current_price < zhongshu.low

\* C24: every stroke emitted by find_strokes joins two fractals of opposite
\* kind whose merged-bar positions differ by at least 2, with the end price
\* strictly above the start price for an up-stroke (bottom to top) and strictly
\* below it for a down-stroke (top to bottom).
C24_StrokesJoinOppositeFractals ==
    pc = "done" =>
        \A k \in 1..Len(strokes) :
            \E i \in 1..Len(fractals), j \in 1..Len(fractals) :
                /\ i < j
                /\ fractals[j].idx - fractals[i].idx >= 2
                /\ strokes[k].start = fractals[i].price
                /\ strokes[k].end = fractals[j].price
                /\ \/ /\ strokes[k].type = "up"
                      /\ fractals[i].type = "bottom"
                      /\ fractals[j].type = "top"
                      /\ strokes[k].end > strokes[k].start
                   \/ /\ strokes[k].type = "down"
                      /\ fractals[i].type = "top"
                      /\ fractals[j].type = "bottom"
                      /\ strokes[k].end < strokes[k].start

C24_Witness ==
    /\ pc = "done"
    /\ Len(strokes) >= 1
    /\ strokes[1].type = "down"

\* C25: consecutive strokes are contiguous: each stroke starts at the price
\* where the previous stroke ended, also when a more extreme fractal of the
\* same kind was absorbed into the anchor after the earlier stroke was emitted.
C25_StrokesContiguous ==
    pc = "done" =>
        \A k \in 2..Len(strokes) : strokes[k].start = strokes[k - 1].end

\* C26: in the output of handle_inclusion no two adjacent bars are in an
\* inclusion relationship (neither bar's range contains the other's), also
\* after the later bar was widened by further merges.
C26_NoAdjacentInclusion ==
    pc = "done" =>
        \A k \in 1..(Len(processed) - 1) :
            LET a == processed[k]
                b == processed[k + 1]
            IN  /\ ~(b.high >= a.high /\ b.low <= a.low)
                /\ ~(b.high <= a.high /\ b.low >= a.low)

\* C27: whenever analyze_stock returns entry, stop-loss and target levels, the
\* entry is the current price, the stop-loss is strictly below the entry for the
\* buy signals (third, second and first buy, with their divergence variants)
\* and strictly above the entry for the sell signals.
BuyFamily ==
    {"third-buy", "third-buy+divergence", "strong-second-buy", "standard-second-buy",
     "first-buy", "first-buy+divergence"}

SellFamily == {"third-sell", "second-sell"}

C27_StopOnLosingSide ==
    (/\ pc = "analyzed"
     /\ result.returned = "dict"
     /\ result.entry_price # NoPrice)
    => /\ result.entry_price = 100 * quote.current_price
       /\ result.signal \in BuyFamily \cup SellFamily
       /\ result.signal \in BuyFamily => result.stop_loss < result.entry_price
       /\ result.signal \in SellFamily => result.stop_loss > result.entry_price

\* C28: for a valid third buy without top divergence the action never becomes
\* more favourable as the grade worsens (buy above watch above wait): grades A
\* and B give buy, and every worse grade would receive, on the same input, an
\* action no more favourable than the one returned; in particular grade E is
\* never treated better than grade D.
ActionRank(action) ==
    CASE action = "buy" -> 2 [] action = "watch" -> 1 [] OTHER -> 0

C28_ActionMonotoneInGrade ==
    (/\ pc = "analyzed"
     /\ result.returned = "dict"
     /\ result.signal = "third-buy")
    => /\ result.grade \in {"A", "B"} => result.action = "buy"
       /\ \A g \in {"A", "B", "C", "D", "E"} :
             GradeRank(g) < GradeRank(result.grade) =>
                ActionRank(Buy3Result(divergence, threshold, [signal_score EXCEPT !.grade = g],
                                      quote.current_price, strokes, zhongshu,
                                      quote.max_price).action)
                   <= ActionRank(result.action)

\* C29: after any sequence of add_to_watchlist / remove_from_watchlist calls
\* executed one at a time, the stored watchlist never holds two entries with
\* the same code: add_to_watchlist on a code already present returns False and
\* leaves the list unchanged, and remove_from_watchlist leaves no entry with
\* the removed code.
C29_WatchlistCodesUnique ==
    pc = "watch" =>
        /\ \A j \in 1..Len(watchlist), k \in 1..Len(watchlist) :
               watchlist[j].code = watchlist[k].code => j = k
        /\ (watch_call.op = "add" /\ HasCode(watch_call.before, watch_call.code)) =>
               /\ watch_call.returned = FALSE
               /\ watchlist = watch_call.before
        /\ watch_call.op = "remove" => ~HasCode(watchlist, watch_call.code)

C29_Witness ==
    /\ pc = "watch"
    /\ watch_call.op = "add"
    /\ watch_call.returned = FALSE
    /\ Len(watchlist) >= 2
    /\ watchlist[1].code = watch_call.code

\* C30: after any sequence of save_analysis_history calls the stored history
\* holds at most 20 batches, and they are exactly the most recently saved
\* ones in call order (the oldest batches are dropped first).
C30_HistoryKeepsLatest20 ==
    pc = "history" =>
        LET n == Len(save_calls)
            kept == IF n > 20 THEN 20 ELSE n
        IN  /\ Len(history) <= 20
            /\ Len(history) = kept
            /\ \A k \in 1..kept : history[k] = save_calls[n - kept + k]

C30_Witness ==
    /\ pc = "history"
    /\ Len(save_calls) = 22
    /\ Len(history) = 20
    /\ history[1].timestamp = 3
    /\ history[1].results # <<>>

====
